---------------------------- MODULE Spec2Model ----------------------------
(***************************************************************************)
(* Model of the Colo card components: Card (with Corner and iconify),      *)
(* DraggableCard and the Home page.                                        *)
(*                                                                         *)
(* JavaScript strings whose length or content matters (card values and     *)
(* glyphs) are sequences of UTF-16 code units, so that .length is Len.     *)
(* A class string is the sequence of its whitespace-separated class        *)
(* tokens, and the className of an element is the tuple of the arguments   *)
(* its cn(...) call is given.                                              *)
(***************************************************************************)
EXTENDS Integers, Sequences, FiniteSets, TLC

VARIABLES
    props,     \* the props of the Card render under way
    out,       \* what that render produced: a thrown error or an element
    pc,        \* "start" before Card has run on props, "done" after
    page,      \* what rendering Home produced ("unmounted" before)
    phase,     \* per DraggableCard: "rest", "drag" or "return"
    offset,    \* per DraggableCard: rendered translation <<x, y>> from the origin
    amp,       \* per DraggableCard: amplitude left in the return animation
    transform, \* per DraggableCard: the target scale and rotation
    reported,  \* gesture callbacks the wrappers have invoked on their host
    dragged    \* per DraggableCard: has it been moved off its origin by a drag

vars == <<props, out, pc, page, phase, offset, amp, transform, reported, dragged>>

cardVars == <<props, out, pc>>
pageVars == <<page, phase, offset, amp, transform, reported, dragged>>

-----------------------------------------------------------------------------
(* Bounds *)

\* Largest displacement, per axis, a drag moves the content by.
MaxOffset == 2

-----------------------------------------------------------------------------
(* Card.tsx: types *)

undefined == "undefined"

Color == {"pink", "orange", "lime", "violet"}

Digit == {<<48 + d>> : d \in 0..9}
Plus2 == <<43, 50>>
Plus4 == <<43, 52>>
Skip == <<115, 107, 105, 112>>
Reverse == <<114, 101, 118, 101, 114, 115, 101>>
Wild == <<119, 105, 108, 100>>

Value == Digit \cup {Plus2, Plus4, Skip, Reverse, Wild}

\* className?: string. Absent, or some class string of the caller's.
ClassNameArg == {<<>>, <<"m-2">>}

CardProps == [color : Color \cup {undefined}, value : Value, className : ClassNameArg]

-----------------------------------------------------------------------------
(* Elements and render results *)

El(tag, className, children) ==
    [tag |-> tag, className |-> className, children |-> children]

NoNode == El("none", <<>>, <<>>)

Rendered(node, lookups) ==
    [threw |-> FALSE, error |-> "", node |-> node, lookups |-> lookups]

Throw(message) ==
    [threw |-> TRUE, error |-> message, node |-> NoNode, lookups |-> <<>>]

NotRendered == [threw |-> FALSE, error |-> "", node |-> NoNode, lookups |-> <<>>]

-----------------------------------------------------------------------------
(* Card.tsx *)

colorMap_limeAsOrange ==
    [c \in Color |->
        CASE c = "pink" -> <<"from-pink-400", "to-pink-600">>
          [] c = "orange" -> <<"from-orange-300", "to-orange-500">>
          [] c = "lime" -> <<"from-orange-300", "to-orange-500">>
          [] c = "violet" -> <<"from-violet-400", "to-violet-600">>]

colorMap ==
    [c \in Color |->
        CASE c = "pink" -> <<"from-pink-400", "to-pink-600">>
          [] c = "orange" -> <<"from-orange-300", "to-orange-500">>
          [] c = "lime" -> <<"from-lime-300", "to-lime-500">>
          [] c = "violet" -> <<"from-violet-400", "to-violet-600">>]

\* `${colorMap[color!]}`: a key the table lacks reads as undefined, which the
\* template literal prints as the text "undefined".
gradientOf(color) ==
    IF color \in DOMAIN colorMap THEN colorMap[color] ELSE <<"undefined">>

NoEntryGlyph == <<9940>>
ArrowsGlyph == <<55357, 56580>>
PaletteGlyph == <<55356, 57256>>

iconify_noReverse(v) ==
    CASE v = Skip -> NoEntryGlyph
      [] v = Wild -> PaletteGlyph
      [] OTHER -> v

iconify(v) ==
    CASE v = Skip -> NoEntryGlyph
      [] v = Reverse -> ArrowsGlyph
      [] v = Wild -> PaletteGlyph
      [] OTHER -> v

CornerBase == <<"absolute", "text-white", "text-xs", "font-bold", "select-none">>

Corner_literal(value, className) ==
    El("span", <<CornerBase, className>>, <<value>>)

Corner(value, className) ==
    El("span", <<CornerBase, className>>, <<iconify(value)>>)

isNeutral_wildOnly(value) == value = Wild

isNeutral(value) == value = Plus4 \/ value = Wild

missingColor_never(p) == FALSE

missingColor(p) == ~isNeutral(p.value) /\ p.color = undefined

NeutralBg == <<"bg-[#1e3a8a]">>

background(p) ==
    IF isNeutral(p.value) THEN NeutralBg ELSE <<"bg-gradient-to-br">> \o gradientOf(p.color)

sizeClass_byGlyph(value) ==
    IF Len(iconify(value)) > 2 THEN <<"text-3xl">> ELSE <<"text-6xl">>

sizeClass(value) ==
    IF Len(value) > 2 THEN <<"text-3xl">> ELSE <<"text-6xl">>

CardBase ==
    <<"relative", "w-32", "overflow-hidden", "h-52", "rounded-[18px]",
      "border-[2px]", "border-black/30">>

OverlayBase == <<"absolute", "inset-0", "block", "origin-top-left", "rotate-12">>

overlayTint(value) ==
    IF isNeutral(value)
    THEN <<"bg-gradient-to-br", "from-white/10", "via-white/5", "to-transparent">>
    ELSE <<"bg-white/20">>

HighlightClass ==
    <<"absolute", "inset-x-0", "top-0", "h-1/3", "rounded-t-[14px]", "bg-white/15",
      "blur-[6px]", "pointer-events-none">>

CenterBase ==
    <<"absolute", "inset-0", "flex", "items-center", "justify-center", "text-white",
      "font-extrabold", "drop-shadow-md">>

Card(p) ==
    IF missingColor(p)
    THEN Throw("Color is required for this card value.")
    ELSE Rendered(
           El("div",
              <<CardBase, background(p),
                <<"shadow-[inset_0_0_0_4px_rgba(255,255,255,0.9)]">>,
                <<"shadow-lg">>, p.className>>,
              <<El("span",
                   <<OverlayBase, overlayTint(p.value),
                     <<"mix-blend-overlay", "pointer-events-none">>>>,
                   <<>>),
                El("span", <<HighlightClass>>, <<>>),
                Corner(p.value, <<"top-2", "left-2">>),
                Corner(p.value, <<"bottom-2", "right-2", "rotate-180">>),
                El("span", <<CenterBase, sizeClass(p.value)>>, <<iconify(p.value)>>)>>),
           IF isNeutral(p.value) THEN <<>> ELSE <<p.color>>)

-----------------------------------------------------------------------------
(* DraggableCard.tsx *)

Ratio(num, den) == <<num, den>>

motionProps_noSnap ==
    [drag |-> TRUE,
     dragElastic |-> Ratio(2, 10),
     whileDrag |-> [scale |-> Ratio(11, 10), rotate |-> 5],
     transition |-> [type |-> "spring", stiffness |-> 300, damping |-> 20],
     className |-> <<"cursor-grab", "active:cursor-grabbing">>]

motionProps_noWhileDrag ==
    [drag |-> TRUE,
     dragSnapToOrigin |-> TRUE,
     dragElastic |-> Ratio(2, 10),
     transition |-> [type |-> "spring", stiffness |-> 300, damping |-> 20],
     className |-> <<"cursor-grab", "active:cursor-grabbing">>]

motionProps_onDragEnd ==
    [drag |-> TRUE,
     dragSnapToOrigin |-> TRUE,
     dragElastic |-> Ratio(2, 10),
     whileDrag |-> [scale |-> Ratio(11, 10), rotate |-> 5],
     transition |-> [type |-> "spring", stiffness |-> 300, damping |-> 20],
     className |-> <<"cursor-grab", "active:cursor-grabbing">>,
     onDragEnd |-> "report"]

\* The props DraggableCard gives motion.div.
motionProps ==
    [drag |-> TRUE,
     dragSnapToOrigin |-> TRUE,
     dragElastic |-> Ratio(2, 10),
     whileDrag |-> [scale |-> Ratio(11, 10), rotate |-> 5],
     transition |-> [type |-> "spring", stiffness |-> 300, damping |-> 20],
     className |-> <<"cursor-grab", "active:cursor-grabbing">>]

DraggableCard(children) ==
    [tag |-> "motion.div", className |-> <<motionProps.className>>,
     children |-> <<children>>, motion |-> motionProps]

-----------------------------------------------------------------------------
(* page.tsx *)

HomeCards_skipNoColor ==
    <<[value |-> <<49>>, color |-> "orange", className |-> <<>>],
      [value |-> Skip, color |-> undefined, className |-> <<>>]>>

\* The props of the two <Card/> elements of Home, in document order.
HomeCards ==
    <<[value |-> <<49>>, color |-> "orange", className |-> <<>>],
      [value |-> Wild, color |-> undefined, className |-> <<>>]>>

Instances == 1..Len(HomeCards)

\* Rendering Home renders every Card in it; an error thrown by one of them is
\* not caught and aborts the render of the page.
Home ==
    LET cards == [i \in Instances |-> Card(HomeCards[i])]
        thrown == {i \in Instances : cards[i].threw}
    IN  IF thrown # {}
        THEN cards[CHOOSE i \in thrown : \A j \in thrown : i <= j]
        ELSE Rendered(
               El("div", <<<<"w-screen">>>>,
                  <<El("Button", <<>>, <<"Button">>),
                    El("#text", <<>>, <<";">>),
                    El("h1", <<<<"bg-primary">>>>, <<"ghdfkjgfhd">>),
                    DraggableCard(cards[1].node),
                    DraggableCard(cards[2].node)>>),
               cards[1].lookups \o cards[2].lookups)

-----------------------------------------------------------------------------
(* The drag gesture of motion.div, as configured by motionProps *)

\* A boolean prop that is absent is off.
Flag(name) == name \in DOMAIN motionProps /\ motionProps[name] = TRUE

\* The gesture callbacks motion.div is given: each is invoked on its event.
Handlers == DOMAIN motionProps \cap {"onDragStart", "onDrag", "onDragEnd"}

RestTransform == [scale |-> Ratio(10, 10), rotate |-> 0]

Origin == <<0, 0>>

Abs(n) == IF n < 0 THEN -n ELSE n

Max(a, b) == IF a >= b THEN a ELSE b

\* The positions at most d from the origin on each axis.
Within(d) == (-d..d) \X (-d..d)

Mounted == page # NotRendered /\ ~page.threw

\* Press on wrapper i: the drag starts (also when pressed on its way back).
PointerDown(i) ==
    /\ Mounted
    /\ Flag("drag")
    /\ phase[i] \in {"rest", "return"}
    /\ phase' = [phase EXCEPT ![i] = "drag"]
    /\ amp' = [amp EXCEPT ![i] = 0]
    /\ transform' = [transform EXCEPT ![i] =
            IF "whileDrag" \in DOMAIN motionProps THEN motionProps.whileDrag ELSE @]
    /\ reported' = reported \cup ({"onDragStart"} \cap Handlers)
    /\ UNCHANGED <<page, offset, dragged>>

\* One pointer-move event while wrapper i is dragged, the pointer having moved
\* by d since the last one: no axis is locked and there are no constraints, so
\* the content follows on both axes.
PointerMove(i, d) ==
    /\ Mounted
    /\ phase[i] = "drag"
    /\ <<offset[i][1] + d[1], offset[i][2] + d[2]>> \in Within(MaxOffset)
    /\ offset' = [offset EXCEPT ![i] = <<@[1] + d[1], @[2] + d[2]>>]
    /\ dragged' = [dragged EXCEPT ![i] = @ \/ offset'[i] # Origin]
    /\ reported' = reported \cup ({"onDrag"} \cap Handlers)
    /\ UNCHANGED <<page, phase, amp, transform>>

\* Release of wrapper i: the drag ends, the whileDrag target is dropped, and with
\* dragSnapToOrigin the content starts its way back to the origin.
PointerUp(i) ==
    /\ Mounted
    /\ phase[i] = "drag"
    /\ transform' = [transform EXCEPT ![i] = RestTransform]
    /\ IF Flag("dragSnapToOrigin") /\ offset[i] # Origin
       THEN /\ phase' = [phase EXCEPT ![i] = "return"]
            /\ amp' = [amp EXCEPT ![i] = Max(Abs(offset[i][1]), Abs(offset[i][2]))]
       ELSE /\ phase' = [phase EXCEPT ![i] = "rest"]
            /\ amp' = [amp EXCEPT ![i] = 0]
    /\ reported' = reported \cup ({"onDragEnd"} \cap Handlers)
    /\ UNCHANGED <<page, offset, dragged>>

\* One frame of the return animation of wrapper i. The spring (stiffness 300,
\* damping 20) is underdamped: the content may overshoot the origin, within an
\* amplitude that shrinks every frame, and is at rest once none is left.
AnimationFrame(i) ==
    /\ Mounted
    /\ phase[i] = "return"
    /\ amp' = [amp EXCEPT ![i] = @ - 1]
    /\ \E pos \in Within(amp[i] - 1) : offset' = [offset EXCEPT ![i] = pos]
    /\ phase' = [phase EXCEPT ![i] = IF amp[i] - 1 = 0 THEN "rest" ELSE "return"]
    /\ UNCHANGED <<page, transform, reported, dragged>>

-----------------------------------------------------------------------------
(* Rendering *)

\* render(<Card {...props}/>)
RenderCard ==
    /\ pc = "start"
    /\ out' = Card(props)
    /\ pc' = "done"
    /\ UNCHANGED <<props, pageVars>>

\* The next render, with props of the caller's choice.
NextProps ==
    /\ pc = "done"
    /\ props' \in CardProps
    /\ out' = NotRendered
    /\ pc' = "start"
    /\ UNCHANGED pageVars

\* render(<Home/>)
MountHome ==
    /\ page = NotRendered
    /\ page' = Home
    /\ UNCHANGED <<cardVars, phase, offset, amp, transform, reported, dragged>>

InitPage ==
    /\ page = NotRendered
    /\ phase = [i \in Instances |-> "rest"]
    /\ offset = [i \in Instances |-> Origin]
    /\ amp = [i \in Instances |-> 0]
    /\ transform = [i \in Instances |-> RestTransform]
    /\ reported = {}
    /\ dragged = [i \in Instances |-> FALSE]

\* Card on its own, on every combination of props its type admits.
CardInit ==
    /\ props \in CardProps
    /\ out = NotRendered
    /\ pc = "start"
    /\ InitPage

CardNext == RenderCard \/ NextProps

CardSpec == CardInit /\ [][CardNext]_vars

\* The Home page and the drag gestures on its two wrappers.
Init ==
    /\ props = HomeCards[1]
    /\ out = NotRendered
    /\ pc = "start"
    /\ InitPage

Gesture(i) ==
    \/ PointerDown(i)
    \/ \E d \in Within(1) : PointerMove(i, d)
    \/ PointerUp(i)
    \/ AnimationFrame(i)

Next ==
    \/ MountHome
    \/ \E i \in Instances : Gesture(i) /\ UNCHANGED cardVars

Spec == Init /\ [][Next]_vars

\* The animation runs on the display's frame callback, which keeps coming for
\* as long as an animation is under way.
FairSpec == Spec /\ \A i \in Instances : WF_vars(AnimationFrame(i) /\ UNCHANGED cardVars)

-----------------------------------------------------------------------------
(* Reading a rendered card *)

Range(seq) == {seq[k] : k \in DOMAIN seq}

\* All class tokens of an element.
Tokens(el) == UNION {Range(el.className[k]) : k \in DOMAIN el.className}

\* The children of the rendered card whose first class argument is base.
ChildrenWith(base) ==
    {k \in DOMAIN out.node.children : out.node.children[k].className[1] = base}

CenterSpan == out.node.children[CHOOSE k \in ChildrenWith(CenterBase) : TRUE]

RenderedOk == pc = "done" /\ ~out.threw

GradientTokens == UNION {Range(colorMap[c]) : c \in Color} \cup {"bg-gradient-to-br"}

-----------------------------------------------------------------------------
(* Claims about Card, under CardSpec *)

\* C1: a value outside {"+4", "wild"} rendered with no color throws the
\* missing-color error; nothing is rendered and the color table is not read.
\* No render ever reads the table with an absent color.
C1_MissingColorThrows ==
    pc = "done" =>
        /\ (props.value \notin {Plus4, Wild} /\ props.color = undefined) =>
              /\ out.threw
              /\ out.error = "Color is required for this card value."
              /\ out.node = NoNode
              /\ out.lookups = <<>>
        /\ undefined \notin Range(out.lookups)

C1_Witness ==
    /\ pc = "done"
    /\ props.value = Skip
    /\ props.color = undefined
    /\ out.threw

\* C2: a "+4" or "wild" card renders with any color argument, absent included;
\* its background is the fixed neutral one, no gradient class is on it, and the
\* result is the same whichever color is given.
C2_NeutralIgnoresColor ==
    (pc = "done" /\ props.value \in {Plus4, Wild}) =>
        /\ ~out.threw
        /\ out.node.className[2] = <<"bg-[#1e3a8a]">>
        /\ Range(out.node.className[2]) \cap GradientTokens = {}
        /\ \A c \in Color \cup {undefined} : Card([props EXCEPT !.color = c]) = out

C2_Witness ==
    /\ pc = "done"
    /\ props.value = Plus4
    /\ props.color = "pink"
    /\ ~out.threw
    /\ out.node.className[2] = <<"bg-[#1e3a8a]">>

\* C3: a value outside {"+4", "wild"} rendered with one of the four colors
\* succeeds with the gradient colorMap gives that color, which is neither the
\* neutral background nor the gradient of another color; colorMap is defined on
\* the four colors and maps different colors to different gradients.
C3_ColoredUsesItsGradient ==
    /\ DOMAIN colorMap = Color
    /\ \A c1, c2 \in Color : colorMap[c1] = colorMap[c2] => c1 = c2
    /\ (pc = "done" /\ props.value \notin {Plus4, Wild} /\ props.color \in Color) =>
          /\ ~out.threw
          /\ out.node.className[2] = <<"bg-gradient-to-br">> \o colorMap[props.color]
          /\ out.node.className[2] # <<"bg-[#1e3a8a]">>
          /\ \A c \in Color \ {props.color} :
                out.node.className[2] # <<"bg-gradient-to-br">> \o colorMap[c]
          /\ out.lookups = <<props.color>>

C3_Witness ==
    /\ pc = "done"
    /\ props.value = Plus2
    /\ props.color = "lime"
    /\ ~out.threw
    /\ out.node.className[2] = <<"bg-gradient-to-br", "from-lime-300", "to-lime-500">>

\* The glyph the specification gives each value.
ExpectedGlyph(v) ==
    CASE v = Skip -> <<9940>>
      [] v = Reverse -> <<55357, 56580>>
      [] v = Wild -> <<55356, 57256>>
      [] OTHER -> v

\* C4: iconify is defined on all 15 values: "skip", "reverse" and "wild" give
\* the prohibition, cyclic-arrows and palette glyphs, every other value (the
\* digits, "+2", "+4") gives its own text; this is the glyph a rendered card shows.
C4_GlyphMapping ==
    /\ Cardinality(Value) = 15
    /\ \A v \in Value : iconify(v) = ExpectedGlyph(v)
    /\ RenderedOk => CenterSpan.children = <<ExpectedGlyph(props.value)>>

C4_Witness ==
    /\ RenderedOk
    /\ props.value = Reverse
    /\ CenterSpan.children = <<ArrowsGlyph>>

SizeOf(el) == el.className[2]

C6_CornerLabels ==
    RenderedOk =>
        LET corners == ChildrenWith(CornerBase)
            label(k) == out.node.children[k]
        IN  /\ Cardinality(corners) = 2
            /\ \A k \in corners : label(k).children = CenterSpan.children
            /\ \E a, b \in corners :
                  /\ a # b
                  /\ {"top-2", "left-2"} \subseteq Tokens(label(a))
                  /\ {"bottom-2", "right-2"} \cap Tokens(label(a)) = {}
                  /\ {"bottom-2", "right-2"} \subseteq Tokens(label(b))
                  /\ {"top-2", "left-2"} \cap Tokens(label(b)) = {}
            /\ Cardinality({k \in corners : "rotate-180" \in Tokens(label(k))}) = 1

C6_Witness ==
    /\ RenderedOk
    /\ props.value = Skip
    /\ \A k \in ChildrenWith(CornerBase) : out.node.children[k].children = <<NoEntryGlyph>>
    /\ Cardinality(ChildrenWith(CornerBase)) = 2

-----------------------------------------------------------------------------
(* Claims about DraggableCard and Home, under Spec and FairSpec *)

\* C7: a wrapper at rest is at its origin, so after press, moves and release the
\* content is back at offset (0,0) when its return animation is over and stays
\* there until it is pressed again; and the return animation does come to its
\* end, unless the wrapper is pressed again first.
C7_SnapToOrigin ==
    \A i \in Instances :
        /\ [](phase[i] = "rest" => offset[i] = <<0, 0>>)
        /\ (phase[i] = "return") ~> (phase[i] = "drag" \/ (phase[i] = "rest" /\ offset[i] = <<0, 0>>))

C7_Witness ==
    \E i \in Instances :
        /\ dragged[i]
        /\ phase[i] = "rest"
        /\ offset[i] = <<0, 0>>

\* C8: the target transform of a wrapper is scale 1.1 and rotation 5 degrees
\* exactly while it is being dragged, and scale 1 and rotation 0 in every
\* other state, the states after a drag has ended included.
C8_EmphasisWhileDragging ==
    \A i \in Instances :
        /\ transform[i] = [scale |-> <<11, 10>>, rotate |-> 5] <=> phase[i] = "drag"
        /\ phase[i] # "drag" => transform[i] = [scale |-> <<10, 10>>, rotate |-> 0]

C8_Witness ==
    \E i, j \in Instances :
        /\ phase[i] = "drag"
        /\ transform[i] = [scale |-> <<11, 10>>, rotate |-> 5]
        /\ dragged[j]
        /\ phase[j] = "return"
        /\ transform[j] = [scale |-> <<10, 10>>, rotate |-> 0]

\* The drag state of wrapper i.
Wrapper(i) == <<phase[i], offset[i], amp[i], transform[i], dragged[i]>>

\* C9: once the page is rendered, no step of a drag gesture changes the page or
\* the cards in it, none invokes a callback on the host, and a step changes the
\* position and transform of one wrapper at most.
C9_DragIsLocal ==
    [][Mounted =>
          /\ page' = page
          /\ reported = {} /\ reported' = {}
          /\ \E i \in Instances : \A j \in Instances \ {i} : Wrapper(j)' = Wrapper(j)
      ]_vars

C9_Witness ==
    /\ Mounted
    /\ reported = {}
    /\ phase[1] = "return"
    /\ offset[1] # Origin
    /\ ~dragged[2]
    /\ Wrapper(2) = <<"rest", Origin, 0, RestTransform, FALSE>>

\* The Card element inside the k-th wrapper of the rendered page.
WrappedCard(k) ==
    LET wrappers == {n \in DOMAIN page.node.children : page.node.children[n].tag = "motion.div"}
        nth == CHOOSE n \in wrappers : Cardinality({m \in wrappers : m < n}) = k - 1
    IN  page.node.children[nth].children[1]

GlyphsOf(card) ==
    {card.children[n].children[1] : n \in {m \in DOMAIN card.children : card.children[m].children # <<>>}}

\* C10: rendering Home does not throw; the page has exactly two wrappers, the
\* first around the card "1" in orange (orange gradient, glyph "1"), the second
\* around the card "wild" with no color (neutral background, palette glyph), and
\* both cards have a neutral value or a color.
C10_HomeRenders ==
    page # NotRendered =>
          /\ ~page.threw
          /\ \A k \in DOMAIN HomeCards :
                HomeCards[k].value \in {Plus4, Wild} \/ HomeCards[k].color \in Color
          /\ Cardinality({n \in DOMAIN page.node.children :
                              page.node.children[n].tag = "motion.div"}) = 2
          /\ WrappedCard(1).className[2] =
                <<"bg-gradient-to-br", "from-orange-300", "to-orange-500">>
          /\ GlyphsOf(WrappedCard(1)) = {<<49>>}
          /\ WrappedCard(2).className[2] = <<"bg-[#1e3a8a]">>
          /\ GlyphsOf(WrappedCard(2)) = {<<55356, 57256>>}

C10_Witness ==
    /\ page # NotRendered
    /\ ~page.threw
    /\ GlyphsOf(WrappedCard(2)) = {PaletteGlyph}

=============================================================================
